---- MODULE Spec2Model ----
(***************************************************************************)
(* A model of src/registrator.py, the Kong service registrator: the        *)
(* observed-state cache (self.upstreams, self.targets, self.apis), the     *)
(* Kong admin API it talks to, the Docker inventory it reads, and the      *)
(* operations of KongServiceRegistrator.                                   *)
(*                                                                         *)
(* The source is Python 2 (filter() returns a list, len(filter(...)),      *)
(* e.message).  A handler runs to completion before the next one starts    *)
(* (one thread), so each handler is one action; the outcome of every       *)
(* remote call it makes is drawn from an oracle `o` chosen with \E.        *)
(* An uncaught Python exception is recorded in the field exc of the        *)
(* engine state and skips the rest of the handler.                         *)
(***************************************************************************)
EXTENDS Integers, Sequences, FiniteSets, TLC

VARIABLES
    upstreams,      \* self.upstreams: after load() a *list* of pool names
    targets,        \* self.targets: pool name -> list of target records
    apis,           \* self.apis: route name -> remote route document
    kongUpstreams,  \* Kong: the names of the upstreams that exist remotely
    kongTargets,    \* Kong: pool name -> set of target records
    kongApis,       \* Kong: route name -> stored route document
    running,        \* Docker: the ids of the running containers
    pc,             \* the process: "ready", "load_apis", "events", "exited", "crashed";
                    \* during load(): "load_upstreams", "load_targets", "loaded"
    pending,        \* at "load_apis": the local variable apis of the handler
    extracted,      \* Docker: what the extractor finds in each container
    extractorCall,  \* a call of one function of the extractor: its arguments
                    \* and, once it returned, its result
    last            \* history: the last operation, its arguments, and the
                    \* remote calls of its stage (the targets, then the apis);
                    \* again tells whether the call before it was the same
                    \* call ("ok": and its remote calls all succeeded)

vars == <<upstreams, targets, apis, kongUpstreams, kongTargets, kongApis,
          running, pc, pending, extracted, extractorCall, last>>

-----------------------------------------------------------------------------
(* Bounds of the model.                                                    *)

\* the most targets Kong holds at start-up, over all pools
MaxInitTargets == 2
\* the most targets of this host Kong may hold at any time, over all pools
MaxKongTargets == 3
\* the most operations called on one engine object, one after another
MaxOps == 2
\* the most requests of one page of a listing that are followed while they fail
MaxRetries == 2

-----------------------------------------------------------------------------
(* Configuration: the command-line options of cli().                       *)

hostname == "h1"
dns_name == ".svc"

OtherHost == "h2"
ServiceNames == {"a", "b"}
HostPorts == {"8080", "8081"}

\* '%s%s' % (service_name, self.dns_name)
UpstreamName(service_name) == service_name \o dns_name
\* '%s:%s' % (self.hostname, hostPort)
TargetAddress(host, hostPort) == host \o ":" \o hostPort

PoolNames == {UpstreamName(s) : s \in ServiceNames}
Addresses == {TargetAddress(hostname, hp) : hp \in HostPorts}

\* ':' in t['target'] in the place of the test of lines 145-146
HasHostPart(address, host) ==
    \E h \in {hostname, OtherHost}, hp \in HostPorts : address = (h \o ":") \o hp

\* t['target'].startswith('%s:' % self.hostname), over the addresses of the model
StartsWithHost(address, host) ==
    \E hp \in HostPorts : address = (host \o ":") \o hp

-----------------------------------------------------------------------------
(* Helpers: iteration orders.                                              *)

RECURSIVE SetToSeq(_)
\* one fixed iteration order of a Python set or dict
SetToSeq(S) ==
    IF S = {} THEN <<>>
    ELSE LET x == CHOOSE y \in S : TRUE IN <<x>> \o SetToSeq(S \ {x})

\* every iteration order of a Python set or dict
Orders(S) ==
    {q \in [1..Cardinality(S) -> S] : \A i, j \in 1..Cardinality(S) : i # j => q[i] # q[j]}

Range(q) == {q[i] : i \in 1..Len(q)}

-----------------------------------------------------------------------------
(* The engine state a handler works on, and the log of its remote calls.   *)
(*   st.upstreams, st.targets, st.apis : the fields of self                *)
(*   st.ku, st.kt, st.ka               : Kong's upstreams, targets, apis   *)
(*   st.calls                          : the remote calls made so far      *)
(*   st.exc                            : "none", or the exception raised   *)

Call(method, kind, name, arg, status) ==
    [method |-> method, kind |-> kind, name |-> name, arg |-> arg, status |-> status]

Logged(st, call) == [st EXCEPT !.calls = Append(@, call)]

Raise(st, e) == [st EXCEPT !.exc = e]

AllIds(st) ==
    UNION {{t.id : t \in st.kt[p]} : p \in DOMAIN st.kt}
    \cup UNION {{st.targets[p][i].id : i \in 1..Len(st.targets[p])} : p \in DOMAIN st.targets}

\* the id Kong gives to a new target: one that names no target anywhere
FreshId(st) == CHOOSE i \in 1..(MaxKongTargets + MaxInitTargets + 1) : i \notin AllIds(st)

\* the number of targets of this host that Kong holds
KongSize(kt) == Cardinality({t \in UNION {kt[p] : p \in DOMAIN kt} : t.id # 0})

-----------------------------------------------------------------------------
(* remove_target, remove_targets: src/registrator.py lines 212-235.        *)

\* the filter of line 234: every cached entry but those with this id
WithoutId(q, target_id) == SelectSeq(q, LAMBDA t : t.id # target_id)

remove_target(st, o, name, target, target_id) ==
    IF st.exc # "none" THEN st
    ELSE LET status == IF target_id \in o.failDelete THEN 500 ELSE 204
             kt2 == IF status = 204
                    THEN [st.kt EXCEPT ![name] = {t \in @ : t.id # target_id}]
                    ELSE st.kt
             \* lines 229-232 only log; lines 234-235 run whatever the status
             st1 == Logged([st EXCEPT !.kt = kt2],
                           Call("DELETE", "target", name, target_id, status))
         IN [st1 EXCEPT !.targets[name] = WithoutId(@, target_id)]

RECURSIVE remove_each(_, _, _, _, _)
\* the loop of lines 218-219 over target_ids
remove_each(st, o, upstream, target, ids) ==
    IF ids = <<>> THEN st
    ELSE remove_each(remove_target(st, o, upstream, target, Head(ids)),
                     o, upstream, target, Tail(ids))

\* lines 216-217 without the test t['weight'] > 0
target_ids_of_any_weight(cached, target) ==
    {cached[i].id : i \in {j \in 1..Len(cached) : cached[j].target = target}}

\* lines 216-217: the ids of the cached entries with this address and weight > 0
target_ids(cached, target) ==
    {cached[i].id : i \in {j \in 1..Len(cached) :
                              cached[j].target = target /\ cached[j].weight > 0}}

remove_targets(st, o, upstream, target) ==
    IF st.exc # "none" THEN st
    \* line 217, self.targets[upstream]
    ELSE IF upstream \notin DOMAIN st.targets THEN Raise(st, "KeyError")
    ELSE remove_each(st, o, upstream, target,
                     SetToSeq(target_ids(st.targets[upstream], target)))

-----------------------------------------------------------------------------
(* add_upstream, add_target: src/registrator.py lines 162-210.             *)

add_upstream(st, o, name) ==
    IF st.exc # "none" THEN st
    ELSE IF \E i \in 1..Len(st.upstreams) : st.upstreams[i] = name THEN st
    ELSE LET posted == IF o.upstream = "post500" THEN 500
                       ELSE IF name \in st.ku THEN 409 ELSE 201
             st1 == Logged([st EXCEPT !.ku = IF posted = 201 THEN @ \cup {name} ELSE @],
                           Call("POST", "upstream", name, "", posted))
             fetched == IF o.upstream = "get500" THEN 500 ELSE 200
             st2 == IF posted = 409
                    THEN Logged(st1, Call("GET", "upstream", name, "", fetched))
                    ELSE st1
             status == IF posted = 409 THEN fetched ELSE posted
         IN IF status \in {200, 201}
            \* line 176, self.upstreams[name] = r.json(): load_upstreams (line 130)
            \* left self.upstreams a list, and a list takes no string index
            THEN Raise(st2, "TypeError")
            ELSE st2

\* lines 192-193 with the test t['weight'] == 0: the retired entries of the address
retired_with_address(cached, target) ==
    SelectSeq(cached, LAMBDA t : t.target = target /\ t.weight = 0)

\* lines 192-193: the cached entries with this address and weight != 0
live_with_address(cached, target) ==
    SelectSeq(cached, LAMBDA t : t.target = target /\ t.weight # 0)

\* what Kong answers to a successful POST of {'target': target}
created_target(st, target) == [target |-> target, weight |-> 100, id |-> FreshId(st)]

\* add_target without line 200: the created target is not put in the cache
add_target_unrecorded(st, o, name, target) ==
    LET st1 == add_upstream(st, o, name)
    IN IF st1.exc # "none" THEN st1
       ELSE IF name \notin DOMAIN st1.targets THEN Raise(st1, "KeyError")
       ELSE IF Len(live_with_address(st1.targets[name], target)) = 0
       THEN LET status == IF target \in o.failAdd THEN 500 ELSE 201
                new == created_target(st1, target)
            IN IF status = 201
               THEN Logged([st1 EXCEPT !.kt[name] = @ \cup {new}],
                           Call("POST", "target", name, target, status))
               ELSE Logged(st1, Call("POST", "target", name, target, status))
       ELSE st1

add_target(st, o, name, target) ==
    LET st1 == add_upstream(st, o, name)
    IN IF st1.exc # "none" THEN st1
       \* line 191, self.targets[name]
       ELSE IF name \notin DOMAIN st1.targets THEN Raise(st1, "KeyError")
       ELSE IF Len(live_with_address(st1.targets[name], target)) = 0
       THEN LET status == IF target \in o.failAdd THEN 500 ELSE 201
                new == created_target(st1, target)
            IN IF status = 201
               THEN Logged([st1 EXCEPT !.kt[name] = @ \cup {new},
                                       !.targets[name] = Append(@, new)],
                           Call("POST", "target", name, target, status))
               ELSE Logged(st1, Call("POST", "target", name, target, status))
       ELSE st1

-----------------------------------------------------------------------------
(* sync_upstream: src/registrator.py lines 79-91.                          *)

\* lines 84-85: the addresses of all cached entries of the pool
in_kong(st, upstream) ==
    IF upstream \in DOMAIN st.targets
    THEN {st.targets[upstream][i].target : i \in 1..Len(st.targets[upstream])}
    ELSE {}

RECURSIVE remove_all_of(_, _, _, _)
remove_all_of(st, o, upstream, addrs) ==
    IF addrs = <<>> THEN st
    ELSE remove_all_of(remove_targets(st, o, upstream, Head(addrs)), o, upstream, Tail(addrs))

RECURSIVE add_all_of(_, _, _, _)
add_all_of(st, o, upstream, addrs) ==
    IF addrs = <<>> THEN st
    ELSE add_all_of(add_target(st, o, upstream, Head(addrs)), o, upstream, Tail(addrs))

sync_upstream(st, o, upstream, desired) ==
    IF st.exc # "none" THEN st
    ELSE LET live == desired
             to_delete == in_kong(st, upstream) \ live
             to_add == live \ in_kong(st, upstream)
         IN add_all_of(remove_all_of(st, o, upstream, SetToSeq(to_delete)),
                       o, upstream, SetToSeq(to_add))

-----------------------------------------------------------------------------
(* Route documents and sync_apis: src/registrator.py lines 93-110, 253-286.*)
(* A JSON object is a function from field names to values.                 *)

EmptyDoc == [f \in {} |-> ""]

Doc1(k, v) == [f \in {k} |-> v]

\* dict.update, and a PATCH of a stored document
Updated(doc, with) ==
    [f \in DOMAIN doc \cup DOMAIN with |-> IF f \in DOMAIN with THEN with[f] ELSE doc[f]]

\* jsondiff.diff(current, definition, syntax='explicit') on two objects with
\* scalar fields.  The result is a dict; the keys of an explicit diff are the
\* library's Symbol objects insert, update and delete, written here as
\* <<"symbol", label>>, while a str key is <<"str", text>>.  With no field in
\* common the library returns `definition` itself, with equal documents {}.
\* A value is kept as a set with as many elements as len() would count.
diff(current, definition) ==
    LET both == DOMAIN current \cap DOMAIN definition
        added == DOMAIN definition \ DOMAIN current
        removed == DOMAIN current \ DOMAIN definition
        changed == {f \in both : current[f] # definition[f]}
        n_tot == Cardinality(DOMAIN current \cup DOMAIN definition)
    IN IF n_tot # 0 /\ both = {}
       THEN {<<<<"str", f>>, IF definition[f] = "" THEN {} ELSE {definition[f]}>> :
                f \in DOMAIN definition}
       ELSE IF added = {} /\ removed = {} /\ changed = {} THEN {}
       ELSE (IF added # {} THEN {<<<<"symbol", "insert">>, added>>} ELSE {})
            \cup (IF changed # {} THEN {<<<<"symbol", "update">>, changed>>} ELSE {})
            \cup (IF removed # {} THEN {<<<<"symbol", "delete">>, removed>>} ELSE {})

\* lines 265-266 as `differences != {}`
needs_update_on_any_difference(current, definition) ==
    diff(current, definition) # {}

\* lines 265-266: '$update' in differences and len(differences['$update']) > 0
needs_update(current, definition) ==
    \E e \in diff(current, definition) : e[1] = <<"str", "$update">> /\ e[2] # {}

\* what Kong stores, and answers, for a created or patched route
stored_api(name, doc) == Updated(doc, Doc1("id", "id-" \o name))

sync_api(st, o, name, definition) ==
    IF name \in DOMAIN st.apis
    THEN IF needs_update(st.apis[name], definition)
         THEN LET status == IF name \in o.failApi THEN 500 ELSE 200
                  new == Updated(st.ka[name], definition)
              IN IF status = 200
                 THEN Logged([st EXCEPT !.ka = [n \in DOMAIN @ |-> IF n = name THEN new ELSE @[n]],
                                        !.apis = [n \in DOMAIN @ |-> IF n = name THEN new ELSE @[n]]],
                             Call("PATCH", "api", name, "", status))
                 ELSE Logged(st, Call("PATCH", "api", name, "", status))
         ELSE st
    ELSE LET status == IF name \in o.failApi THEN 500 ELSE 201
             new == stored_api(name, definition)
         IN IF status = 201
            THEN Logged([st EXCEPT !.ka = [n \in DOMAIN @ \cup {name} |-> IF n = name THEN new ELSE @[n]],
                                   !.apis = [n \in DOMAIN @ \cup {name} |-> IF n = name THEN new ELSE @[n]]],
                        Call("PUT", "api", name, "", status))
            ELSE Logged(st, Call("PUT", "api", name, "", status))

RECURSIVE sync_each_api(_, _, _, _)
\* the loop of lines 258-286
sync_each_api(st, o, apiDefs, names) ==
    IF names = <<>> THEN st
    ELSE sync_each_api(sync_api(st, o, Head(names), apiDefs[Head(names)]),
                       o, apiDefs, Tail(names))

\* lines 97-107, one page request answered 200 or 404: self.apis is what Kong
\* listed (nothing on 404).  Any other status is logged (lines 108-110) and
\* the same page is requested again: see the action LoadApisPage.
load_apis(st, status) ==
    Logged([st EXCEPT !.apis = IF status = 200 THEN st.ka ELSE EmptyDoc],
           Call("GET", "apis", "", "", status))

sync_apis(st, o, apiDefs, status) ==
    sync_each_api(load_apis(st, status), o, apiDefs, SetToSeq(DOMAIN apiDefs))

-----------------------------------------------------------------------------
(* The Docker inventory.  A container has                                  *)
(*   ports : container.attrs['NetworkSettings']['Ports'], from <<port,     *)
(*           protocol>> (the key 'port/protocol') to the first HostPort,   *)
(*           or to None when the port is not published;                    *)
(*   env   : container.attrs['Config']['Env'] as a dictionary.             *)

None == "<None>"

Tcp(port) == <<port, "tcp">>

Ports1(key, hostPort) == [k \in {key} |-> hostPort]

Env1(k1, v1) == [k \in {k1} |-> v1]

Env2(k1, v1, k2, v2) == [k \in {k1, k2} |-> IF k = k1 THEN v1 ELSE v2]

BadJson == "not json"
UrisA == "{\"uris\": \"/a\"}"
NamedB == "{\"name\": \"b\", \"uris\": \"/b\"}"

\* json.loads on the route specifications of the model
json_loads(text) ==
    IF text = UrisA THEN [ok |-> TRUE, doc |-> Doc1("uris", "/a")]
    ELSE IF text = NamedB
    THEN [ok |-> TRUE, doc |-> Updated(Doc1("name", "b"), Doc1("uris", "/b"))]
    ELSE [ok |-> FALSE, doc |-> EmptyDoc]

Containers == {"c1", "c2"}

\* two containers of service a: c1 declares a route, c2 does not
Inventory(id) ==
    IF id = "c1"
    THEN [ports |-> Ports1(Tcp("80"), "8080"),
          env |-> Env2("SERVICE_NAME", "a", "KONG_API", UrisA)]
    ELSE [ports |-> Ports1(Tcp("81"), "8081"),
          env |-> Env1("SERVICE_NAME", "a")]

PublishedPorts(id) ==
    {Inventory(id).ports[k] : k \in DOMAIN Inventory(id).ports} \ {None}

-----------------------------------------------------------------------------
(* The desired-state extractor: src/registrator.py lines 237-422.          *)

get_environment_of_container(container) == container.env

\* lines 292-294: k.endswith('/tcp') and v is not None
get_all_exposed_tcp_ports(container) ==
    {k \in DOMAIN container.ports : k[2] = "tcp" /\ container.ports[k] # None}

\* lines 300-301 without the test k.endswith('/tcp')
get_all_ports(container) ==
    DOMAIN container.ports

\* lines 300-301
get_all_tcp_ports(container) ==
    {k \in DOMAIN container.ports : k[2] = "tcp"}

get_environment_value_for_port(container, prefix, postfix, port) ==
    LET env == get_environment_of_container(container)
        tcp_ports == get_all_tcp_ports(container)
        full_name == (prefix \o "_") \o postfix
        \* port.split('/')[0]
        port_name == (((prefix \o "_") \o port[1]) \o "_") \o postfix
    IN IF port_name \in DOMAIN env THEN env[port_name]
       ELSE IF full_name \in DOMAIN env /\ Cardinality(tcp_ports) = 1 THEN env[full_name]
       ELSE None

get_service_name_for_port(container, port) ==
    get_environment_value_for_port(container, "SERVICE", "NAME", port)

get_kong_api_for_port(container, port) ==
    get_environment_value_for_port(container, "KONG", "API", port)

\* lines 407-416 for one port: <<upstream, target>>, or nothing
upstream_target_of(container, port) ==
    LET service_name == get_service_name_for_port(container, port)
    IN IF service_name = None THEN {}
       ELSE {<<UpstreamName(service_name), TargetAddress(hostname, container.ports[port])>>}

\* The result of get_upstream_targets: [exc, result].  With two ports of one
\* upstream the branch of line 417 evaluates container['ID'] (line 420) on a
\* docker Container object, which has no item access: TypeError.
get_upstream_targets(container) ==
    LET ports == get_all_exposed_tcp_ports(container)
        pairs == UNION {upstream_target_of(container, port) : port \in ports}
        named == {port \in ports : get_service_name_for_port(container, port) # None}
        names == {e[1] : e \in pairs}
    IN IF \E p1, p2 \in named : p1 # p2 /\ upstream_target_of(container, p1) # {}
            /\ \E e1 \in upstream_target_of(container, p1),
                   e2 \in upstream_target_of(container, p2) : e1[1] = e2[1]
       THEN [exc |-> "TypeError", result |-> [u \in {} |-> ""]]
       ELSE [exc |-> "none",
             result |-> [u \in names |-> (CHOOSE e \in pairs : e[1] = u)[2]]]

\* lines 355-383 for one port: "skip" (no route specification), "error" (one
\* of the log.error calls of lines 371-374 and 378-380, which evaluate
\* container['ID'] and raise TypeError), or the named definition
api_definition_of(container, port) ==
    LET text == get_kong_api_for_port(container, port)
        service_name == get_service_name_for_port(container, port)
        upstream == IF service_name # None
                    THEN ("http://" \o service_name) \o dns_name ELSE None
        parsed == json_loads(text)
        d1 == IF "upstream_url" \notin DOMAIN parsed.doc /\ upstream # None
              THEN Updated(parsed.doc, Doc1("upstream_url", upstream)) ELSE parsed.doc
        d2 == IF "name" \notin DOMAIN d1 /\ service_name # None
              THEN Updated(d1, Doc1("name", service_name)) ELSE d1
    IN IF text = None THEN [kind |-> "skip", doc |-> EmptyDoc]
       ELSE IF ~parsed.ok THEN [kind |-> "error", doc |-> EmptyDoc]
       ELSE IF "name" \notin DOMAIN d2 THEN [kind |-> "error", doc |-> EmptyDoc]
       ELSE [kind |-> "api", doc |-> d2]

\* The result of get_api_definitions: [exc, result].  A second definition of
\* one name reaches line 387, which evaluates container['ID'] as well.
get_api_definitions(container) ==
    LET ports == get_all_exposed_tcp_ports(container)
        defs == {api_definition_of(container, port) : port \in ports}
        good == {port \in ports : api_definition_of(container, port).kind = "api"}
        names == {api_definition_of(container, port).doc["name"] : port \in good}
    IN IF (\E d \in defs : d.kind = "error")
          \/ (\E p1, p2 \in good : p1 # p2 /\ api_definition_of(container, p1).doc["name"]
                                                 = api_definition_of(container, p2).doc["name"])
       THEN [exc |-> "TypeError", result |-> [n \in {} |-> EmptyDoc]]
       ELSE [exc |-> "none",
             result |-> [n \in names |->
                           api_definition_of(container,
                               CHOOSE port \in good :
                                   api_definition_of(container, port).doc["name"] = n).doc]]

-----------------------------------------------------------------------------
(* The handlers: src/registrator.py lines 424-476.  A handler that ends in *)
(* sync_apis stops before its first page request with the route            *)
(* definitions it is about to synchronise; LoadApisPage takes it on.       *)

NoApis == [n \in {} |-> EmptyDoc]

\* self.dockr.containers.get(id), and the extractor on the container found.
\* A container never changes, so what the extractor finds in it is computed
\* once, in Init, and kept in the variable extracted.
Extracted ==
    [c \in Containers |-> [targets |-> get_upstream_targets(Inventory(c)),
                           apis |-> get_api_definitions(Inventory(c))]]

UpstreamTargets == [c \in Containers |-> extracted[c].targets]
ApiDefinitions == [c \in Containers |-> extracted[c].apis]

\* [st, apis]: the engine state, and the local variable apis
Outcome(st, apiDefs) == [st |-> st, apis |-> apiDefs]

RECURSIVE add_each_upstream_by_sync(_, _, _, _)
\* the loop of lines 439-440 with sync_upstream in the place of add_target
add_each_upstream_by_sync(st, o, upstream_targets, order) ==
    IF order = <<>> THEN st
    ELSE add_each_upstream_by_sync(
             sync_upstream(st, o, Head(order), {upstream_targets[Head(order)]}),
             o, upstream_targets, Tail(order))

RECURSIVE add_each_upstream(_, _, _, _)
\* the loop of lines 439-440
add_each_upstream(st, o, upstream_targets, order) ==
    IF order = <<>> THEN st
    ELSE add_each_upstream(add_target(st, o, Head(order), upstream_targets[Head(order)]),
                           o, upstream_targets, Tail(order))

\* lines 435-442, with the container found; order is the iteration order of
\* the dictionary targets
container_started(st, o, container_id, order) ==
    LET found == UpstreamTargets[container_id]
        st1 == IF found.exc # "none" THEN Raise(st, found.exc)
               ELSE add_each_upstream(st, o, found.result, order)
        defs == ApiDefinitions[container_id]
    IN IF st1.exc # "none" THEN Outcome(st1, NoApis)
       ELSE IF defs.exc # "none" THEN Outcome(Raise(st1, defs.exc), NoApis)
       ELSE Outcome(st1, defs.result)

\* lines 453-461: the desired addresses of every pool, the cached pools included
desired_targets(cached, listed) ==
    LET found(c) == UpstreamTargets[c].result
        contributed == UNION {DOMAIN found(c) : c \in listed}
    IN [u \in DOMAIN cached \cup contributed |->
            {found(c)[u] : c \in {d \in listed : u \in DOMAIN found(d)}}]

RECURSIVE desired_apis(_)
\* lines 463-464, apis.update(container_apis) over the listed containers
desired_apis(listed) ==
    IF listed = <<>> THEN NoApis
    ELSE Updated(desired_apis(SubSeq(listed, 1, Len(listed) - 1)),
                 ApiDefinitions[listed[Len(listed)]].result)

RECURSIVE sync_each_upstream(_, _, _, _)
\* the loop of lines 466-467
sync_each_upstream(st, o, desired, order) ==
    IF order = <<>> THEN st
    ELSE sync_each_upstream(sync_upstream(st, o, Head(order), desired[Head(order)]),
                            o, desired, Tail(order))

\* lines 453-467; listed is self.dockr.containers.list(), order the iteration
\* order of the dictionary targets
sync(st, o, listed, order) ==
    IF \E i \in 1..Len(listed) :
           \/ UpstreamTargets[listed[i]].exc # "none"
           \/ ApiDefinitions[listed[i]].exc # "none"
    THEN Outcome(Raise(st, "TypeError"), NoApis)
    ELSE Outcome(sync_each_upstream(st, o, desired_targets(st.targets, Range(listed)), order),
                 desired_apis(listed))

RECURSIVE remove_listed_until_failure(_, _, _, _)
\* the loop of lines 475-476, given up at the first DELETE that fails
remove_listed_until_failure(st, o, upstream, cached) ==
    IF cached = <<>> THEN st
    ELSE IF Head(cached).id \in o.failDelete
    THEN remove_target(st, o, upstream, Head(cached).target, Head(cached).id)
    ELSE remove_listed_until_failure(
             remove_target(st, o, upstream, Head(cached).target, Head(cached).id),
             o, upstream, Tail(cached))

RECURSIVE remove_listed(_, _, _, _)
\* the loop of lines 475-476 over the list self.targets[upstream] held when it began
remove_listed(st, o, upstream, cached) ==
    IF cached = <<>> THEN st
    ELSE remove_listed(remove_target(st, o, upstream, Head(cached).target, Head(cached).id),
                       o, upstream, Tail(cached))

RECURSIVE remove_all(_, _, _)
\* lines 474-476; order is the iteration order of self.targets
remove_all(st, o, order) ==
    IF order = <<>> THEN st
    ELSE remove_all(remove_listed(st, o, Head(order), st.targets[Head(order)]),
                    o, Tail(order))

-----------------------------------------------------------------------------
(* Start-up: __init__ and load, src/registrator.py lines 38-60, 112-160.   *)

\* lines 143-152 without the filter of lines 145-146
load_targets_of_any_host(listing, status) ==
    IF status = 200 THEN listing ELSE <<>>

\* lines 143-152: the listed targets of this host on 200, nothing otherwise
load_targets(listing, status) ==
    IF status = 200
    THEN SelectSeq(listing, LAMBDA t : StartsWithHost(t.target, hostname))
    ELSE <<>>

InitEntries == [pool : {UpstreamName("a")}, target : Addresses, weight : {0, 100}]

EntryOrder == SetToSeq(InitEntries)
EntryRank(e) == CHOOSE i \in 1..Len(EntryOrder) : EntryOrder[i] = e

\* a target of another host, which Kong lists first in its pool
Foreign(p) ==
    IF p = UpstreamName("a")
    THEN <<[target |-> TargetAddress(OtherHost, "8080"), weight |-> 100, id |-> 0]>>
    ELSE <<>>

\* what Kong holds of this host at start-up: targets in the pool of service
\* a, in the order Kong lists them; the position of a target stands for its id
InitRemotes ==
    UNION {{q \in [1..n -> InitEntries] :
               \A i \in 1..n, j \in 1..n :
                   i < j => q[i].pool = q[j].pool /\ EntryRank(q[i]) <= EntryRank(q[j])} :
           n \in 0..MaxInitTargets}

Listing(remote, p) ==
    LET ids == {i \in 1..Len(remote) : remote[i].pool = p}
        rec(i) == [target |-> remote[i].target, weight |-> remote[i].weight, id |-> i]
        RECURSIVE from(_)
        from(i) == IF i > Len(remote) THEN <<>>
                   ELSE (IF i \in ids THEN <<rec(i)>> ELSE <<>>) \o from(i + 1)
    IN from(1)

\* GET /upstreams/p/targets
Listed(remote, ku, p) == (IF p \in ku THEN Foreign(p) ELSE <<>>) \o Listing(remote, p)

InitApis ==
    {NoApis,
     [n \in {"a"} |-> stored_api("a", Updated(Extracted["c1"].apis.result["a"],
                                               Doc1("uris", "/old")))]}

\* two running containers never publish one host port
RunningSets ==
    {R \in SUBSET Containers :
        \A c, d \in R : c # d => PublishedPorts(c) \cap PublishedPorts(d) = {}}

NoLast ==
    [op |-> "none", stage |-> "targets", pool |-> "", address |-> "", desired |-> {},
     container |-> "", calls |-> <<>>, exc |-> "none", seq |-> 0, again |-> "no",
     failed |-> 0]

\* no function of the extractor is being called
NoProbe == [op |-> "none"]

\* the state after KongServiceRegistrator(...) returned, with every request
\* of load() answered 200: load_upstreams read the names of the upstreams and
\* load_targets the targets of each
Loaded ==
    \E remote \in InitRemotes, ku \in SUBSET PoolNames :
      /\ \A i \in 1..Len(remote) : remote[i].pool \in ku
      /\ kongUpstreams = ku
      /\ kongTargets = [p \in PoolNames |-> Range(Listed(remote, ku, p))]
      /\ upstreams = SetToSeq(ku)
      /\ targets = [p \in Range(upstreams) |-> load_targets(Listed(remote, ku, p), 200)]
      /\ apis = NoApis
      /\ kongApis \in InitApis
      /\ pending = NoApis
      /\ pc = "ready"
      /\ last = NoLast

Init ==
    /\ extracted = Extracted
    /\ extractorCall = NoProbe
    /\ Loaded
    /\ running = {}

-----------------------------------------------------------------------------
(* Actions.                                                                *)

Engine ==
    [upstreams |-> upstreams, targets |-> targets, apis |-> apis,
     ku |-> kongUpstreams, kt |-> kongTargets, ka |-> kongApis,
     calls |-> <<>>, exc |-> "none"]

\* every remote call answers with success
AllOk == [failDelete |-> {}, failAdd |-> {}, upstream |-> "ok", failApi |-> {}]

Made(calls, method, kind) ==
    {calls[i] : i \in {j \in 1..Len(calls) :
                          calls[j].method = method /\ calls[j].kind = kind}}

\* no remote call of the log failed: 200, 201 and 204 are the answers the code
\* takes as success, and a 409 is settled by the GET that follows it
AllSucceeded(calls) ==
    \A i \in 1..Len(calls) : calls[i].status \in {200, 201, 204, 409}

\* The outcomes of the remote calls of one handler, over the calls it makes:
\* `probe` is the log of the handler's calls when all of them succeed.  (The
\* calls a handler makes do not depend on their outcomes: a remote failure is
\* logged and the handler goes on; add_upstream ends the handler on an
\* unknown pool whatever Kong answers.)
Oracles(probe) ==
    [failDelete : SUBSET {c.arg : c \in Made(probe, "DELETE", "target")},
     failAdd : SUBSET {c.arg : c \in Made(probe, "POST", "target")},
     upstream : {"ok"} \cup (IF Made(probe, "POST", "upstream") # {} THEN {"post500"} ELSE {})
                      \cup (IF Made(probe, "GET", "upstream") # {} THEN {"get500"} ELSE {}),
     failApi : SUBSET {c.name : c \in Made(probe, "PUT", "api") \cup Made(probe, "PATCH", "api")}]

Commit(st) ==
    /\ KongSize(st.kt) <= MaxKongTargets
    /\ upstreams' = st.upstreams
    /\ targets' = st.targets
    /\ apis' = st.apis
    /\ kongUpstreams' = st.ku
    /\ kongTargets' = st.kt
    /\ kongApis' = st.ka

Record(op, st) == [NoLast EXCEPT !.op = op, !.calls = st.calls, !.exc = st.exc]

\* where the process goes when the handler `op` has returned
Return(op) ==
    CASE op \in {"sync", "container_started", "container_died", "skip"} -> "events"
      [] op \in {"remove_all"} -> "exited"
      [] OTHER -> "ready"

\* a handler of the program ended: by an exception nobody catches, or at its
\* sync_apis call
Proceed(out) ==
    /\ Commit(out.st)
    /\ pending' = out.apis
    /\ pc' = IF out.st.exc # "none" THEN "crashed" ELSE "load_apis"

\* self.dockr.containers.list()
ContainerList == SetToSeq(running)

\* sync() as far as its sync_apis call, lines 453-467
FullSync(op) ==
    \E order \in Orders(DOMAIN desired_targets(targets, running)) :
      \E o \in Oracles(sync(Engine, AllOk, ContainerList, order).st.calls) :
        LET out == sync(Engine, o, ContainerList, order)
        IN /\ Proceed(out)
           /\ last' = Record(op, out.st)

\* cli sync and cli daemon, lines 516-524 and 537-544: both call sync() first
CmdSync ==
    /\ pc = "ready"
    /\ FullSync("sync")
    /\ UNCHANGED <<running, extracted, extractorCall>>

\* cli remove_all: lines 527-534
CmdRemoveAll ==
    /\ pc = "ready"
    /\ \E order \in Orders(DOMAIN targets) :
         \E o \in Oracles(remove_all(Engine, AllOk, order).calls) :
           LET st == remove_all(Engine, o, order)
           IN /\ Commit(st)
              /\ last' = Record("remove_all", st)
    /\ pc' = "exited"
    /\ UNCHANGED <<running, pending, extracted, extractorCall>>

\* process_events, a start event: lines 487-488 and 431-446
ContainerStarted(c) ==
    /\ pc = "events"
    /\ IF c \notin running
       \* docker.errors.NotFound, caught at line 445
       THEN /\ last' = [Record("container_started", Engine) EXCEPT
                            !.container = c, !.exc = "NotFound"]
            /\ UNCHANGED <<upstreams, targets, apis, kongUpstreams, kongTargets,
                           kongApis, pc, pending>>
       ELSE \E order \in Orders(DOMAIN UpstreamTargets[c].result) :
              \E o \in Oracles(container_started(Engine, AllOk, c, order).st.calls) :
                LET out == container_started(Engine, o, c, order)
                IN /\ Proceed(out)
                   /\ last' = [Record("container_started", out.st) EXCEPT !.container = c]
    /\ UNCHANGED <<running, extracted, extractorCall>>

\* process_events, a die event: lines 489-490 and 424-429
ContainerDied ==
    /\ pc = "events"
    /\ FullSync("container_died")
    /\ UNCHANGED <<running, extracted, extractorCall>>

\* process_events, any other event: lines 491-494
OtherEvent ==
    /\ pc = "events"
    /\ last' = Record("skip", Engine)
    /\ UNCHANGED <<upstreams, targets, apis, kongUpstreams, kongTargets, kongApis,
                   running, pc, pending, extracted, extractorCall>>

\* the process ends: cli sync returns from sync() (line 544), or the event
\* stream of cli daemon ends (line 482)
StreamEnds ==
    /\ pc = "events"
    /\ pc' = "exited"
    /\ last' = NoLast
    /\ UNCHANGED <<upstreams, targets, apis, kongUpstreams, kongTargets, kongApis,
                   running, pending, extracted, extractorCall>>

\* sync_apis, lines 257-286: one page request of load_apis and, once it is
\* answered 200 or 404, the rest of sync_apis.  Any other status leaves the
\* loop of lines 99-110 where it is, with next_page unchanged: last.failed
\* counts the requests of the page answered so while the listing is under way.
LoadApisPage ==
    /\ pc = "load_apis"
    /\ \E status \in {200, 404, 500} :
         IF status \in {200, 404}
         THEN \E o \in Oracles(sync_apis(Engine, AllOk, pending, status).calls) :
                LET st == sync_apis(Engine, o, pending, status)
                IN /\ Commit(st)
                   /\ last' = [last EXCEPT !.stage = "apis", !.calls = st.calls,
                                                 !.failed = 0]
                   /\ pending' = NoApis
                   /\ pc' = Return(last.op)
         \* lines 108-110: log.error, and the loop requests next_page again
         ELSE /\ last.failed < MaxRetries
              /\ last' = [last EXCEPT !.stage = "apis", !.failed = @ + 1,
                                       !.calls = <<Call("GET", "apis", "", "", status)>>]
              /\ UNCHANGED <<upstreams, targets, apis, kongUpstreams, kongTargets,
                             kongApis, pc, pending>>
    /\ UNCHANGED <<running, extracted, extractorCall>>

\* Docker starts a container, or one dies.  A handler reads the inventory
\* when it begins, so a change while it runs is a change after it.
DockerStart(c) ==
    /\ pc \in {"ready", "events"}
    /\ running \cup {c} \in RunningSets \ {running}
    /\ running' = running \cup {c}
    /\ last' = NoLast
    /\ UNCHANGED <<upstreams, targets, apis, kongUpstreams, kongTargets, kongApis,
                   pc, pending, extracted, extractorCall>>

DockerDie(c) ==
    /\ pc \in {"ready", "events"}
    /\ c \in running
    /\ running' = running \ {c}
    /\ last' = NoLast
    /\ UNCHANGED <<upstreams, targets, apis, kongUpstreams, kongTargets, kongApis,
                   pc, pending, extracted, extractorCall>>

Next ==
    \/ CmdSync
    \/ CmdRemoveAll
    \/ \E c \in Containers : ContainerStarted(c)
    \/ ContainerDied
    \/ OtherEvent
    \/ StreamEnds
    \/ LoadApisPage
    \/ \E c \in Containers : DockerStart(c)
    \/ \E c \in Containers : DockerDie(c)

\* the program: one of the three commands, on a host whose containers come and go
Spec == Init /\ [][Next]_vars

-----------------------------------------------------------------------------
(* The operations of the engine, called one after another on one           *)
(* KongServiceRegistrator object.  An exception goes to the caller, and    *)
(* the object stays as the operation left it.                              *)

Call1(op, st) == [Record(op, st) EXCEPT !.seq = last.seq + 1]

\* the engine is called, for the seq-th time
Called == pc = "ready" /\ last.seq < MaxOps

Stay == UNCHANGED <<running, pc, pending, extracted, extractorCall>>

OpSyncUpstream(p, D) ==
    /\ Called
    /\ \E o \in Oracles(sync_upstream(Engine, AllOk, p, D).calls) :
         LET st == sync_upstream(Engine, o, p, D)
         IN /\ Commit(st)
            /\ last' = [Call1("sync_upstream", st) EXCEPT
                            !.pool = p, !.desired = D,
                            !.again = IF last.op = "sync_upstream" /\ last.pool = p
                                         /\ last.desired = D
                                      THEN IF AllSucceeded(last.calls) THEN "ok" ELSE "failed"
                                      ELSE "no"]
    /\ Stay

OpAddTarget(p, a) ==
    /\ Called
    /\ \E o \in Oracles(add_target(Engine, AllOk, p, a).calls) :
         LET st == add_target(Engine, o, p, a)
         IN /\ Commit(st)
            /\ last' = [Call1("add_target", st) EXCEPT !.pool = p, !.address = a]
    /\ Stay

OpRemoveTargets(p, a) ==
    /\ Called
    /\ \E o \in Oracles(remove_targets(Engine, AllOk, p, a).calls) :
         LET st == remove_targets(Engine, o, p, a)
         IN /\ Commit(st)
            /\ last' = [Call1("remove_targets", st) EXCEPT !.pool = p, !.address = a]
    /\ Stay

OpRemoveAll ==
    /\ Called
    /\ \E order \in Orders(DOMAIN targets) :
         \E o \in Oracles(remove_all(Engine, AllOk, order).calls) :
           LET st == remove_all(Engine, o, order)
           IN /\ Commit(st)
              /\ last' = Call1("remove_all_op", st)
    /\ Stay

\* the route definitions sync_apis is called with
ApiInputs ==
    {NoApis, Extracted["c1"].apis.result,
     [n \in {"b"} |-> Updated(Doc1("name", "b"), Doc1("uris", "/b"))]}

OpSyncApis(apiDefs) ==
    /\ Called
    /\ pc' = "load_apis"
    /\ pending' = apiDefs
    /\ last' = Call1("sync_apis", Engine)
    /\ UNCHANGED <<upstreams, targets, apis, kongUpstreams, kongTargets, kongApis,
                   running, extracted, extractorCall>>

EngineNext ==
    \/ \E p \in PoolNames, D \in SUBSET Addresses : OpSyncUpstream(p, D)
    \/ \E p \in PoolNames, a \in Addresses : OpAddTarget(p, a)
    \/ \E p \in PoolNames, a \in Addresses : OpRemoveTargets(p, a)
    \/ OpRemoveAll
    \/ \E apiDefs \in ApiInputs : OpSyncApis(apiDefs)
    \/ LoadApisPage

EngineSpec == Init /\ [][EngineNext]_vars

-----------------------------------------------------------------------------
(* The extractor, called on one container: src/registrator.py lines        *)
(* 288-422.  The container is any of TestContainers: up to two TCP ports   *)
(* and a UDP port, each published or not, and an environment that names    *)
(* services and route specifications for a port or for the container.      *)

Absent == "<absent>"

TestPorts == {Tcp("80"), Tcp("81"), <<"53", "udp">>}

\* the HostPort a port is published on
HostPortOf(key) ==
    IF key = Tcp("80") THEN "8080" ELSE IF key = Tcp("81") THEN "8081" ELSE "5353"

\* container.attrs['NetworkSettings']['Ports']: a port is left out, exposed
\* and not published (None), or published
TestPortMaps ==
    {[k \in {p \in TestPorts : m[p] # Absent} |-> m[k]] :
        m \in {f \in [TestPorts -> {Absent, None, "8080", "8081", "5353"}] :
                  \A p \in TestPorts : f[p] \in {Absent, None, HostPortOf(p)}}}

TestEnvKeys ==
    {"SERVICE_NAME", "SERVICE_80_NAME", "SERVICE_81_NAME",
     "KONG_API", "KONG_80_API", "KONG_81_API"}

\* the values an environment variable takes
TestEnvValues(key) ==
    CASE key = "SERVICE_NAME" -> {"a"}
      [] key = "SERVICE_80_NAME" -> {"a", "b"}
      [] key = "SERVICE_81_NAME" -> {"a"}
      [] key = "KONG_API" -> {UrisA, BadJson}
      [] key = "KONG_80_API" -> {UrisA}
      [] key = "KONG_81_API" -> {UrisA, NamedB}

\* container.attrs['Config']['Env'], as get_environment_of_container reads it
TestEnvs ==
    {[k \in {v \in TestEnvKeys : m[v] # Absent} |-> m[k]] :
        m \in {f \in [TestEnvKeys -> {Absent, "a", "b", UrisA, BadJson, NamedB}] :
                  \A k \in TestEnvKeys : f[k] \in {Absent} \cup TestEnvValues(k)}}

TestContainers == [ports : TestPortMaps, env : TestEnvs]

\* before the call: the extractor is about to be called on some container,
\* and nothing else goes on
ExtractorInit ==
    /\ extracted = Extracted
    /\ kongUpstreams = {}
    /\ kongTargets = [p \in PoolNames |-> {}]
    /\ kongApis = NoApis
    /\ upstreams = <<>>
    /\ targets = [p \in {} |-> <<>>]
    /\ apis = NoApis
    /\ pending = NoApis
    /\ pc = "ready"
    /\ last = NoLast
    /\ running = {}
    /\ \E container \in TestContainers :
          extractorCall = [op |-> "call", container |-> container]

Probing == extractorCall.op = "call"

Idle ==
    UNCHANGED <<upstreams, targets, apis, kongUpstreams, kongTargets, kongApis,
                running, pc, pending, extracted, last>>

GetEnvironmentValueForPort(prefix, postfix, port) ==
    /\ Probing
    /\ port \in DOMAIN extractorCall.container.ports
    /\ extractorCall' =
           [op |-> "get_environment_value_for_port",
            container |-> extractorCall.container,
            prefix |-> prefix, postfix |-> postfix, port |-> port,
            result |-> get_environment_value_for_port(extractorCall.container,
                                                      prefix, postfix, port)]
    /\ Idle

GetUpstreamTargets ==
    /\ Probing
    /\ extractorCall' =
           [op |-> "get_upstream_targets",
            container |-> extractorCall.container,
            result |-> get_upstream_targets(extractorCall.container)]
    /\ Idle

GetApiDefinitions ==
    /\ Probing
    /\ extractorCall' =
           [op |-> "get_api_definitions",
            container |-> extractorCall.container,
            result |-> get_api_definitions(extractorCall.container)]
    /\ Idle

ExtractorNext ==
    \/ \E port \in TestPorts : GetEnvironmentValueForPort("SERVICE", "NAME", port)
    \/ \E port \in TestPorts : GetEnvironmentValueForPort("KONG", "API", port)
    \/ GetUpstreamTargets
    \/ GetApiDefinitions

ExtractorSpec == ExtractorInit /\ [][ExtractorNext]_vars

-----------------------------------------------------------------------------
(* load(), called by the constructor: src/registrator.py lines 112-160.    *)
(* Every request is a step: a page of the listing of the upstreams, then   *)
(* the targets of each cached upstream.  Kong holds pools of the domain    *)
(* and one of another domain, and answers any request with 200, 404 or 500.*)

OtherDns == ".lan"
OutsidePool == "a" \o OtherDns
LoadPools == PoolNames \cup {OutsidePool}

\* u.endswith(self.dns_name), over the pool names of the model
EndsWithDns(name) == \E s \in ServiceNames : name = s \o dns_name

\* the target of this host in the pool of the other domain
OutsideTargets ==
    {[target |-> TargetAddress(hostname, "8081"), weight |-> 100, id |-> MaxInitTargets + 1]}

\* the state at line 58, before self.load()
LoadInit ==
    /\ \E remote \in InitRemotes, ku \in SUBSET LoadPools :
         /\ \A i \in 1..Len(remote) : remote[i].pool \in ku
         /\ kongUpstreams = ku
         /\ kongTargets = [p \in LoadPools |->
                              IF p = OutsidePool
                              THEN (IF p \in ku THEN OutsideTargets ELSE {})
                              ELSE Range(Listed(remote, ku, p))]
    /\ upstreams = <<>>
    /\ targets = [p \in {} |-> <<>>]
    /\ apis = NoApis
    /\ kongApis = NoApis
    /\ pending = NoApis
    /\ pc = "load_upstreams"
    /\ last = [NoLast EXCEPT !.op = "load"]
    /\ running = {}
    /\ extracted = Extracted
    /\ extractorCall = NoProbe

\* lines 130-131
OfDomain(names) == SelectSeq(names, EndsWithDns)

\* the upstreams that the pages answered so far did not list
NotListed == SelectSeq(SetToSeq(kongUpstreams), LAMBDA n : n \notin Range(upstreams))

\* where load() goes on when load_upstreams has returned the list `names`
AfterListing(names) == IF names = <<>> THEN "loaded" ELSE "load_targets"

Requested(kind, name, status) ==
    [last EXCEPT !.calls = Append(@, Call("GET", kind, name, "", status)),
                 !.failed = IF status \in {200, 404} THEN 0 ELSE @ + 1]

\* one request of the loop of lines 118-129, and lines 130-131 when it ends
LoadUpstreamsPage ==
    /\ pc = "load_upstreams"
    /\ \E status \in {200, 404, 500} :
         /\ last' = Requested("upstreams", "", status)
         /\ CASE status = 200 ->
                   \* the page lists the next k upstreams; it has a 'next'
                   \* while there are more
                   \E k \in (IF NotListed = <<>> THEN {0} ELSE 1..Len(NotListed)) :
                     LET listed == upstreams \o SubSeq(NotListed, 1, k)
                     IN IF k < Len(NotListed)
                        THEN upstreams' = listed /\ pc' = pc
                        ELSE /\ upstreams' = OfDomain(listed)
                             /\ pc' = AfterListing(OfDomain(listed))
              [] status = 404 ->
                   /\ upstreams' = OfDomain(upstreams)
                   /\ pc' = AfterListing(OfDomain(upstreams))
              [] OTHER ->
                   \* lines 127-129: log.error, and the loop requests next_page again
                   /\ last.failed < MaxRetries
                   /\ UNCHANGED <<upstreams, pc>>
    /\ UNCHANGED <<targets, apis, kongUpstreams, kongTargets, kongApis, running,
                   pending, extracted, extractorCall>>

\* the upstream that the loop of lines 159-160 is at
NextToLoad ==
    upstreams[CHOOSE i \in 1..Len(upstreams) :
                  /\ upstreams[i] \notin DOMAIN targets
                  /\ \A j \in 1..(i - 1) : upstreams[j] \in DOMAIN targets]

\* load_targets(name) for the next upstream of the loop of lines 159-160
LoadTargets ==
    /\ pc = "load_targets"
    /\ \E status \in {200, 404, 500} :
         /\ targets' = [p \in DOMAIN targets \cup {NextToLoad} |->
                           IF p = NextToLoad
                           THEN load_targets(SetToSeq(kongTargets[p]), status)
                           ELSE targets[p]]
         /\ last' = [Requested("targets", NextToLoad, status) EXCEPT !.failed = 0]
    /\ pc' = IF Range(upstreams) \subseteq DOMAIN targets \cup {NextToLoad}
             THEN "loaded" ELSE pc
    /\ UNCHANGED <<upstreams, apis, kongUpstreams, kongTargets, kongApis, running,
                   pending, extracted, extractorCall>>

LoadNext ==
    \/ LoadUpstreamsPage
    \/ LoadTargets

LoadSpec == LoadInit /\ [][LoadNext]_vars

-----------------------------------------------------------------------------
(* The properties.  The engine's properties are stated of EngineSpec, the  *)
(* program's of Spec.  An operation's remote calls are in last.calls, the  *)
(* cache before it in the unprimed variables of its step.                  *)

\* the addresses of the live (weight > 0) targets of this host among `entries`
LiveAddresses(entries) ==
    {t.target : t \in {u \in entries : u.weight > 0 /\ StartsWithHost(u.target, hostname)}}

\* the step is a call of the engine operation op
CallOf(op) == last'.op = op /\ last'.seq = last.seq + 1

\* C1: after sync_upstream(p, D) has returned with every remote call it made
\* answered with success, the addresses of the live targets of this host
\* that Kong holds in p are exactly D.
C1_Convergence ==
    (last.op = "sync_upstream" /\ last.exc = "none" /\ AllSucceeded(last.calls))
        => LiveAddresses(kongTargets[last.pool]) = last.desired

\* the step is sync_upstream(p, D) called right after sync_upstream(p, D)
SecondSync ==
    /\ last.op = "sync_upstream"
    /\ CallOf("sync_upstream")
    /\ last'.pool = last.pool
    /\ last'.desired = last.desired

\* the operation of the step created and deleted no target, and left the
\* cache as it was
NoTargetWrites ==
    /\ Made(last'.calls, "POST", "target") = {}
    /\ Made(last'.calls, "DELETE", "target") = {}
    /\ targets' = targets
    /\ upstreams' = upstreams

\* C2, as claimed: the second of two consecutive calls sync_upstream(p, D)
\* issues no create-target and no delete-target call and leaves the cache
\* unchanged.
C2_Idempotence == [][SecondSync => NoTargetWrites]_vars

\* C2, amended: the same, when every remote call of the first call succeeded.
C2_IdempotenceAfterSuccess ==
    [][(SecondSync /\ AllSucceeded(last.calls)) => NoTargetWrites]_vars

\* a second sync_upstream(p, D), after a first one that created the targets
\* of D in a known pool, found nothing to do
C2_Witness ==
    /\ last.op = "sync_upstream"
    /\ last.again = "ok"
    /\ last.exc = "none"
    /\ last.calls = <<>>
    /\ last.desired # {}
    /\ last.pool \in DOMAIN targets
    /\ \E i \in 1..Len(targets[last.pool]) :
          /\ targets[last.pool][i].target \in last.desired
          /\ targets[last.pool][i].id > MaxInitTargets

\* every cached target of the pool with this address has weight 0, and there
\* is one
OnlyZeroWeight(cached, address) ==
    /\ \E i \in 1..Len(cached) : cached[i].target = address
    /\ \A i \in 1..Len(cached) : cached[i].target = address => cached[i].weight = 0

\* C3: when sync_upstream(p, D) is called with a in D, or add_target(p, a) is
\* called, and every cached target of p with address a has weight 0, the
\* operation issues a create-target call for a.
C3_ZeroWeightNeverBlocks ==
    [][\A a \in Addresses :
          (/\ \/ (CallOf("sync_upstream") /\ a \in last'.desired)
              \/ (CallOf("add_target") /\ a = last'.address)
           /\ last'.pool \in DOMAIN targets
           /\ OnlyZeroWeight(targets[last'.pool], a))
          => \E c \in Made(last'.calls, "POST", "target") :
                 c.name = last'.pool /\ c.arg = a]_vars

\* C4: a target whose DELETE call failed is still in the cache of its pool
\* when the operation has ended.
C4_FailedDeleteKeepsTarget ==
    \A c \in Made(last.calls, "DELETE", "target") :
        c.status # 204 =>
            /\ c.name \in DOMAIN targets
            /\ \E i \in 1..Len(targets[c.name]) : targets[c.name][i].id = c.arg

\* the cache after the step holds every entry it held before, in its place
CacheKept ==
    \A p \in DOMAIN targets :
        /\ p \in DOMAIN targets'
        /\ Len(targets'[p]) >= Len(targets[p])
        /\ SubSeq(targets'[p], 1, Len(targets[p])) = targets[p]

\* C5: the handling of a container-start event, its sync_apis call included,
\* issues no delete-target call and removes no entry from the target cache.
C5_StartIsAdditive ==
    [][last'.op = "container_started"
          => Made(last'.calls, "DELETE", "target") = {} /\ CacheKept]_vars

\* container_started added a target to a pool whose cache held a live target
\* with another address
C5_Witness ==
    /\ last.op = "container_started"
    /\ last.stage = "targets"
    /\ last.exc = "none"
    /\ \E c \in Made(last.calls, "POST", "target") :
          /\ c.status = 201
          /\ \E i \in 1..Len(targets[c.name]) :
                targets[c.name][i].target # c.arg /\ targets[c.name][i].weight > 0

\* the addresses the running containers contribute to the pool p
Contributed(p) ==
    {UpstreamTargets[c].result[p] :
        c \in {d \in running : p \in DOMAIN UpstreamTargets[d].result}}

\* C6: when the handler of a die event has synchronised the pools with every
\* remote call answered with success, the live targets of this host that Kong
\* holds in each known pool are exactly the addresses of the running
\* containers (none for a pool whose containers have all died).
C6_ResyncAfterDie ==
    (/\ last.op = "container_died"
     /\ last.stage = "targets"
     /\ last.exc = "none"
     /\ AllSucceeded(last.calls))
        => \A p \in DOMAIN targets : LiveAddresses(kongTargets[p]) = Contributed(p)

\* the cached targets, each as <<pool, id>>
CachedIds(cache) ==
    UNION {{<<p, cache[p][i].id>> : i \in 1..Len(cache[p])} : p \in DOMAIN cache}

\* the number of cached targets
RECURSIVE CacheSize(_, _)
CacheSize(cache, pools) ==
    IF pools = {} THEN 0
    ELSE LET p == CHOOSE q \in pools : TRUE
         IN Len(cache[p]) + CacheSize(cache, pools \ {p})

\* C7: remove_all issues DELETE calls only, as many as the cache holds
\* targets, and for each cached target exactly one, naming its pool and its
\* id, whatever the other DELETE calls answer.
C7_RemoveAllDeletesEach ==
    [][CallOf("remove_all_op")
          => /\ Len(last'.calls) = CacheSize(targets, DOMAIN targets)
             /\ \A i \in 1..Len(last'.calls) :
                   last'.calls[i].method = "DELETE" /\ last'.calls[i].kind = "target"
             /\ \A e \in CachedIds(targets) :
                   Cardinality({i \in 1..Len(last'.calls) :
                                   /\ last'.calls[i].name = e[1]
                                   /\ last'.calls[i].arg = e[2]}) = 1]_vars

\* remove_all made a DELETE call that succeeded after one that failed
C7_Witness ==
    /\ last.op = "remove_all_op"
    /\ Len(last.calls) >= 2
    /\ last.calls[1].status = 500
    /\ last.calls[2].status = 204

\* every field of the desired document has its value in the remote one
SameAsRemote(remote, definition) ==
    \A f \in DOMAIN definition : f \in DOMAIN remote /\ remote[f] = definition[f]

\* C8: when sync_apis has listed the routes, it issues no PATCH and no create
\* call for a desired route that Kong holds under its name with every field
\* of the desired document unchanged.
C8_RouteUpdateSkip ==
    [][(pc = "load_apis" /\ pc' # "load_apis")
          => \A n \in DOMAIN pending :
                (/\ last'.calls[1].status = 200
                 /\ n \in DOMAIN kongApis
                 /\ SameAsRemote(kongApis[n], pending[n]))
                => \A c \in Made(last'.calls, "PUT", "api")
                              \cup Made(last'.calls, "PATCH", "api") : c.name # n]_vars

\* container_started of c1 ended with a sync_apis that found the route of c1
\* in Kong, unchanged, and made no call but the listing
C8_Witness ==
    /\ last.op = "container_started"
    /\ last.container = "c1"
    /\ last.stage = "apis"
    /\ Len(last.calls) = 1
    /\ last.calls[1].status = 200
    /\ "a" \in DOMAIN kongApis
    /\ SameAsRemote(kongApis["a"], ApiDefinitions["c1"].result["a"])

\* C9: the handling of a start or a die event never ends the process.
C9_DaemonSurvives ==
    last.op \in {"container_started", "container_died"} => pc # "crashed"

\* C10: when add_target(p, a) had to create the pool p and no remote call of
\* it failed, it returns normally, having created the target, with the
\* target in the cache of p and p among the known pools.
C10_LazyPoolCreation ==
    (/\ last.op = "add_target"
     /\ Made(last.calls, "POST", "upstream") # {}
     /\ AllSucceeded(last.calls))
        => /\ last.exc = "none"
           /\ \E c \in Made(last.calls, "POST", "target") :
                 c.arg = last.address /\ c.status = 201
           /\ last.pool \in DOMAIN targets
           /\ \E i \in 1..Len(targets[last.pool]) :
                 targets[last.pool][i].target = last.address

\* C12: get_environment_value_for_port returns the value of the key
\* <PREFIX>_<port>_<SUFFIX> when it is set; otherwise the value of
\* <PREFIX>_<SUFFIX> exactly when that key is set and the container has
\* exactly one TCP port (a port of Ports with protocol tcp, published or
\* not); otherwise no value.
C12_NamingRule ==
    extractorCall.op = "get_environment_value_for_port" =>
        LET env == extractorCall.container.env
            ports == extractorCall.container.ports
            specific == (((extractorCall.prefix \o "_") \o extractorCall.port[1]) \o "_")
                            \o extractorCall.postfix
            agnostic == (extractorCall.prefix \o "_") \o extractorCall.postfix
            one_tcp == Cardinality({k \in DOMAIN ports : k[2] = "tcp"}) = 1
        IN extractorCall.result =
               IF specific \in DOMAIN env THEN env[specific]
               ELSE IF agnostic \in DOMAIN env /\ one_tcp THEN env[agnostic]
               ELSE None

\* the port-agnostic SERVICE_NAME was returned for the one TCP port of a
\* container that has a UDP port as well
C12_Witness ==
    /\ extractorCall.op = "get_environment_value_for_port"
    /\ extractorCall.prefix = "SERVICE"
    /\ extractorCall.port = Tcp("80")
    /\ "SERVICE_80_NAME" \notin DOMAIN extractorCall.container.env
    /\ DOMAIN extractorCall.container.ports = {Tcp("80"), <<"53", "udp">>}
    /\ extractorCall.result = "a"


\* the pools that the published TCP ports of the probed container declare
DeclaredPools ==
    {UpstreamName(get_service_name_for_port(extractorCall.container, port)) :
        port \in {q \in get_all_exposed_tcp_ports(extractorCall.container) :
                     get_service_name_for_port(extractorCall.container, q) # None}}

\* C13: get_upstream_targets raises no error, whatever the container's ports
\* declare, and returns one address for exactly the pools that its published
\* TCP ports declare: two ports with one service name yield one contribution
\* and leave the other pools of the container in the result.
C13_DuplicateSuppression ==
    extractorCall.op = "get_upstream_targets" =>
        /\ extractorCall.result.exc = "none"
        /\ DOMAIN extractorCall.result.result = DeclaredPools

\* the ports of the probed container whose route specification is well formed
\* and named, and the names they define
GoodPorts ==
    {port \in get_all_exposed_tcp_ports(extractorCall.container) :
        api_definition_of(extractorCall.container, port).kind = "api"}

GoodNames ==
    {api_definition_of(extractorCall.container, port).doc["name"] : port \in GoodPorts}

\* C20: get_api_definitions completes normally whatever the route
\* specifications of the ports are: a port whose specification does not parse
\* or has no name contributes nothing, and the definitions of the other
\* ports are returned.
C20_MalformedIsolated ==
    extractorCall.op = "get_api_definitions" =>
        /\ extractorCall.result.exc = "none"
        /\ DOMAIN extractorCall.result.result = GoodNames


\* the ids of the cached entries of pool p with address a and weight > 0
LiveIds(cache, p, a) ==
    {cache[p][i].id : i \in {j \in 1..Len(cache[p]) :
                                cache[p][j].target = a /\ cache[p][j].weight > 0}}

\* C14: remove_targets(p, a) on a cached pool p issues DELETE calls only, all
\* of them on p, one for each id of a cached entry of p with address a and
\* weight > 0 and none for any other id, whatever the DELETE calls answer.
C14_RemoveTargetsSelection ==
    [][(CallOf("remove_targets") /\ last'.pool \in DOMAIN targets)
          => /\ last'.exc = "none"
             /\ \A i \in 1..Len(last'.calls) :
                   /\ last'.calls[i].method = "DELETE"
                   /\ last'.calls[i].kind = "target"
                   /\ last'.calls[i].name = last'.pool
                   /\ last'.calls[i].arg \in LiveIds(targets, last'.pool, last'.address)
             /\ \A id \in LiveIds(targets, last'.pool, last'.address) :
                   Cardinality({i \in 1..Len(last'.calls) : last'.calls[i].arg = id}) = 1]_vars

\* remove_targets went on to a second id after the DELETE of the first failed
C14_Witness ==
    /\ last.op = "remove_targets"
    /\ Len(last.calls) = 2
    /\ last.calls[1].status = 500
    /\ last.calls[2].status \in {204, 500}
    /\ last.calls[1].arg # last.calls[2].arg

\* the number of cached entries of pool p with address a and weight > 0
LiveCount(cache, p, a) ==
    IF p \in DOMAIN cache
    THEN Cardinality({i \in 1..Len(cache[p]) :
                         cache[p][i].target = a /\ cache[p][i].weight > 0})
    ELSE 0

\* C15: no step of the program (a start event, a die event, a sync) issues a
\* create-target call for an address of which the cache holds a live entry
\* in that pool, and no step takes the number of live cached entries of one
\* pool and address above one, or above what it was.
C15_NoDuplicateRegistration ==
    [][\A p \in PoolNames, a \in Addresses :
          /\ LiveCount(targets, p, a) > 0
                => ~\E c \in Made(last'.calls, "POST", "target") : c.name = p /\ c.arg = a
          /\ LiveCount(targets', p, a) <= (IF LiveCount(targets, p, a) > 1
                                            THEN LiveCount(targets, p, a) ELSE 1)]_vars

\* the start event of a running container whose address is live in the cache
\* was handled without a create-target call
C15_Witness ==
    /\ last.op = "container_started"
    /\ last.stage = "targets"
    /\ last.exc = "none"
    /\ last.container \in running
    /\ Made(last.calls, "POST", "target") = {}
    /\ \E u \in DOMAIN UpstreamTargets[last.container].result :
          LiveCount(targets, u, UpstreamTargets[last.container].result[u]) = 1

\* the remote calls of the last operation had a create-pool call for its pool
\* answered 409 and the fetch of the pool by name answered 200
ConflictResolved ==
    /\ \E c \in Made(last.calls, "POST", "upstream") : c.name = last.pool /\ c.status = 409
    /\ \E c \in Made(last.calls, "GET", "upstream") : c.name = last.pool /\ c.status = 200

\* C16: when add_target(p, a) had its create-pool call answered 409 and the
\* fetch of p succeeded, it raised no error, p is a known pool, and the
\* create-target call for a was issued.
C16_ConflictAsExists ==
    (last.op = "add_target" /\ ConflictResolved)
        => /\ last.exc = "none"
           /\ last.pool \in Range(upstreams)
           /\ \E c \in Made(last.calls, "POST", "target") :
                 c.name = last.pool /\ c.arg = last.address


\* the step is the rest of sync_apis after its listing was answered 200
ListedApis ==
    /\ pc = "load_apis"
    /\ pc' # "load_apis"
    /\ Len(last'.calls) > 0
    /\ last'.calls[1].status = 200

\* the desired document has a field that the remote one lacks or holds with
\* another value
DiffersFromRemote(remote, definition) ==
    \E f \in DOMAIN definition : f \notin DOMAIN remote \/ remote[f] # definition[f]

\* C17: sync_apis issues a create call for a desired route exactly when Kong
\* lists no route of its name, and a PATCH for every desired route that Kong
\* lists with a document lacking a desired field or holding another value
\* for it.
C17_CreateUpdateDecision ==
    [][ListedApis
          => \A n \in DOMAIN pending :
                /\ (n \notin DOMAIN kongApis)
                      <=> (\E c \in Made(last'.calls, "PUT", "api") : c.name = n)
                /\ (n \in DOMAIN kongApis /\ DiffersFromRemote(kongApis[n], pending[n]))
                      => (\E c \in Made(last'.calls, "PATCH", "api") : c.name = n)]_vars


\* C18: a page request of a listing that is answered with a status other than
\* 200 or 404 ends the listing: in one listing at most one request fails, and
\* the page is not requested again.
C18_ListingAbandoned == last.failed <= 1


\* the ids of the targets of this host that Kong holds in pool p
RemoteIds(p) ==
    {t.id : t \in {u \in kongTargets[p] : StartsWithHost(u.target, hostname)}}

\* C19: after any sequence of engine operations, whatever their remote calls
\* answered, the ids cached for a known pool are the ids of the targets of
\* this host that Kong holds in that pool.
C19_CacheMirrorsRegistry ==
    \A p \in DOMAIN targets :
        {targets[p][i].id : i \in 1..Len(targets[p])} = RemoteIds(p)


\* every page request of the listing of the upstreams was answered 200 in the end
UpstreamsListed ==
    /\ Made(last.calls, "GET", "upstreams") # {}
    /\ \A c \in Made(last.calls, "GET", "upstreams") : c.status # 404

\* what the request of the targets of pool p was answered with
TargetsStatus(p) ==
    (CHOOSE c \in Made(last.calls, "GET", "targets") : c.name = p).status

\* C11: after load() with the upstreams listed, the cache has an entry for
\* exactly the upstreams of Kong whose name ends with the domain suffix; the
\* entry of a pool whose targets request was answered 200 holds exactly the
\* targets of that pool whose address starts with '<hostname>:', and the
\* entry of a pool whose request was answered 404 or 500 is empty.
C11_StartupLoad ==
    (pc = "loaded" /\ UpstreamsListed)
        => /\ last.exc = "none"
           /\ DOMAIN targets = {p \in kongUpstreams : EndsWithDns(p)}
           /\ Range(upstreams) = DOMAIN targets
           /\ \A p \in DOMAIN targets :
                 Range(targets[p]) =
                     IF TargetsStatus(p) = 200
                     THEN {t \in kongTargets[p] : StartsWithHost(t.target, hostname)}
                     ELSE {}

\* load() ended on a Kong that holds a pool of another domain, a pool of the
\* domain with a target of this host and one of another host, listed with
\* 200, and a pool whose targets request was answered 404
C11_Witness ==
    /\ pc = "loaded"
    /\ UpstreamsListed
    /\ OutsidePool \in kongUpstreams
    /\ PoolNames \subseteq DOMAIN targets
    /\ TargetsStatus(UpstreamName("a")) = 200
    /\ Len(targets[UpstreamName("a")]) > 0
    /\ \E t \in kongTargets[UpstreamName("a")] : StartsWithHost(t.target, OtherHost)
    /\ TargetsStatus(UpstreamName("b")) = 404


\* every entry of the cache has an address of this host
OwnCache(cache) ==
    \A p \in DOMAIN cache : \A i \in 1..Len(cache[p]) : cache[p][i].target \in Addresses

\* the targets that Kong holds in pool p for another host
OthersTargets(kt, p) == {t \in kt[p] : t.target \notin Addresses}

\* C21: the cache holds addresses of this host only, before and after every
\* step; every delete-target call of a step names a pool of the cache and
\* the id of one of its cached entries, and none names the id of a target of
\* another host; Kong keeps every target of another host; and every
\* create-target call carries an address of this host.
C21_HostOwnership ==
    [][/\ OwnCache(targets)
       /\ OwnCache(targets')
       /\ \A c \in Made(last'.calls, "DELETE", "target") :
             /\ c.name \in DOMAIN targets
             /\ \E i \in 1..Len(targets[c.name]) : targets[c.name][i].id = c.arg
             /\ \A t \in OthersTargets(kongTargets, c.name) : t.id # c.arg
       /\ \A p \in DOMAIN kongTargets :
             OthersTargets(kongTargets, p) \subseteq kongTargets'[p]
       /\ \A c \in Made(last'.calls, "POST", "target") : c.arg \in Addresses]_vars

\* a full sync deleted a target of this host and created another in a pool
\* in which Kong holds a target of another host
C21_Witness ==
    /\ last.op \in {"sync", "container_died"}
    /\ last.stage = "targets"
    /\ \E c \in Made(last.calls, "DELETE", "target") :
          /\ c.status = 204
          /\ OthersTargets(kongTargets, c.name) # {}
          /\ \E d \in Made(last.calls, "POST", "target") : d.name = c.name /\ d.status = 201

====
